---------------------------- MODULE Spec2Model ----------------------------
(***************************************************************************)
(* doc2tex: the orchestrator (DocTeXConverter.convert / batch), the markup *)
(* encoder (LatexGenerator) and the markup decoder (DocxGenerator).        *)
(*                                                                         *)
(* Spec     the orchestrator: one top-level call of convert or batch on a  *)
(*          small file system, stepped statement by statement.             *)
(* DecSpec  the decoder: _parse_and_build over a markup text, one block    *)
(*          per step, the inline tokenizer one loop iteration per step.    *)
(*                                                                         *)
(* Text is a sequence of tokens.  A token is one character ("\\", "{",     *)
(* "}", "&", "$", "\n", " ", a letter) or one command/environment word     *)
(* ("textbf", "sub", "section", "begin", "tabular", ...) whose letters     *)
(* never occur as plain text, so a word behaves as its characters do.      *)
(***************************************************************************)
EXTENDS Integers, Sequences, FiniteSets, TLC

VARIABLES
    \* ---- orchestrator (converter.py) ----
    settings,          \* ConversionOptions: preserve_images, clean_temp_files
    fs_files,          \* files that exist on disk
    fs_dirs,           \* directories that exist on disk
    temp_dirs,         \* temporary workspaces that exist on disk
    next_tmp,          \* next fresh workspace id of get_temp_dir
    io_log,            \* side effects since the current conversion began
    dirs0,             \* fs_dirs when the current conversion began
    call,              \* the top-level call: "none", "convert", "batch"
    pc,                \* position in the code
    files,             \* batch: argument files
    out_dir,           \* batch: argument out_dir
    bi,                \* batch: position of the for loop (1-based)
    results,           \* batch: local results
    hist,              \* what each finished batch item ended with
    input_file,        \* convert: argument
    output_file,       \* convert: argument, then the derived path
    given_output,      \* convert: output_file as the caller passed it
    forced_direction,  \* convert: argument
    direction,         \* convert: local
    gen_temp,          \* gen.temp_workspace of the LatexGenerator (0: None)
    err,               \* the exception in flight ("none" when none)
    ret,               \* the value returned by convert / batch
    \* ---- decoder (docx.py) ----
    src,               \* what the markup was made from
    content,           \* _parse_and_build: the markup text
    blocks,            \* _parse_and_build: the blocks of the body
    bk_i,              \* _parse_and_build: position of the for loop (1-based)
    word_doc,          \* self.word_doc: the elements added so far
    todo,              \* paragraphs the current block still has to add
    text,              \* _apply_inline: argument
    idx,               \* _apply_inline: the cursor
    dispatched,        \* the reconstructor each block was handed to
    d_pc               \* position in the decoder

orch_vars == <<settings, fs_files, fs_dirs, temp_dirs, next_tmp, io_log, dirs0,
               call, pc, files, out_dir, bi, results, hist, input_file,
               output_file, given_output, forced_direction, direction,
               gen_temp, err, ret>>

dec_vars == <<src, content, blocks, bk_i, word_doc, todo, text, idx, dispatched, d_pc>>

vars == <<orch_vars, dec_vars>>

-----------------------------------------------------------------------------
(* Paths.  A path is [dir, stem, ext]: os.path.dirname, Path.stem and      *)
(* Path.suffix without its dot, in the case the caller wrote it.           *)

P(d, s, e) == [dir |-> d, stem |-> s, ext |-> e]

None == [none |-> TRUE]

\* str.lower() on the suffixes the model uses
Lower(e) ==
    CASE e = "DOCX" -> "docx"
      [] e = "TEX"  -> "tex"
      [] OTHER      -> e

\* Path.with_suffix(new_ext): the last suffix replaced (new_ext without dot)
with_suffix(p, e) == [p EXCEPT !.ext = e]

\* os.path.join(out_dir, name + ext)
path_join(d, name, e) == P(d, name, e)

\* The files the calls are made on
InputPaths ==
    { P("in", "a", "docx"), P("in", "a", "tex"), P("in", "a", "latex"),
      P("in", "b", "pdf"),  P("in", "c", "docx"), P("in", "B", "DOCX"),
      P("in", "d", "docx"), P("in2", "a", "tex") }

\* in/c.docx does not exist
ExistingInputs == InputPaths \ { P("in", "c", "docx") }

\* in/d.docx exists and cannot be loaded (not a real document)
Corrupt == { P("in", "d", "docx") }

\* A directory os.makedirs cannot create
Uncreatable == { "ro" }

OutDirs == { "", "out", "ro" }

GivenOutputs == { None, P("out", "r", "tex"), P("ro", "r", "docx") }

Directions == { "None", "to_latex", "to_docx", "bogus" }

\* Longest list of files handed to batch
MaxFiles == 2

RECURSIVE SeqsUpTo(_, _)
SeqsUpTo(S, n) ==
    IF n = 0 THEN { <<>> }
    ELSE LET shorter == SeqsUpTo(S, n - 1)
         IN  shorter \cup { Append(s, x) : s \in { t \in shorter : Len(t) = n - 1 }, x \in S }

-----------------------------------------------------------------------------
(* utils.py is not part of the sources: is_valid_file, get_temp_dir and    *)
(* cleanup_temp_dir are modelled from their use and their names.           *)

\* utils.is_valid_file(path, exts): an existing file with one of the extensions
is_valid_file(path, exts) == path \in fs_files /\ Lower(path.ext) \in exts

-----------------------------------------------------------------------------
(* converter.py                                                            *)

\* a _guess_direction that compares the suffix without lower()
guess_direction_cased(path) ==
    LET ext == path.ext
    IN  IF ext = "docx" THEN "to_latex"
        ELSE IF ext \in { "tex", "latex" } THEN "to_docx"
        ELSE "InvalidFileFormatError"

\* DocTeXConverter._guess_direction; "InvalidFileFormatError" when it raises
_guess_direction(path) ==
    LET ext == Lower(path.ext)
    IN  IF ext = "docx" THEN "to_latex"
        ELSE IF ext \in { "tex", "latex" } THEN "to_docx"
        ELSE "InvalidFileFormatError"

\* DocTeXConverter._calc_output_path
_calc_output_path(path, dir) ==
    LET new_ext == IF dir = "to_latex" THEN "tex" ELSE "docx"
    IN  with_suffix(path, new_ext)

Log(e) == io_log' = Append(io_log, e)

\* DocTeXConverter.convert is entered (top level)
CallConvert ==
    /\ UNCHANGED dec_vars
    /\ pc = "idle"
    /\ \E inp \in InputPaths, out \in GivenOutputs, forced \in Directions :
          /\ input_file' = inp
          /\ output_file' = out
          /\ given_output' = out
          /\ forced_direction' = forced
    /\ call' = "convert"
    /\ io_log' = <<>>
    /\ dirs0' = fs_dirs
    /\ pc' = "c_exists"
    /\ UNCHANGED <<settings, fs_files, fs_dirs, temp_dirs, next_tmp, files,
                   out_dir, bi, results, hist, direction, gen_temp, err, ret>>

\* convert, lines 44-49: the existence check
ConvertExists ==
    /\ UNCHANGED dec_vars
    /\ pc = "c_exists"
    /\ IF input_file \notin fs_files
       THEN /\ Log("isfile")
            /\ err' = "ConversionError"
            /\ pc' = "c_raised"
       ELSE /\ io_log' = io_log \o <<"isfile", "get_file_info">>
            /\ err' = err
            /\ pc' = "c_direction"
    /\ UNCHANGED <<settings, fs_files, fs_dirs, temp_dirs, next_tmp, dirs0, call,
                   files, out_dir, bi, results, hist, input_file, output_file,
                   given_output, forced_direction, direction, gen_temp, ret>>

\* convert, lines 51-55
ConvertDirection ==
    /\ UNCHANGED dec_vars
    /\ pc = "c_direction"
    /\ IF forced_direction # "None"
       THEN /\ direction' = forced_direction
            /\ err' = err
            /\ pc' = "c_outpath"
       ELSE IF _guess_direction(input_file) = "InvalidFileFormatError"
       THEN /\ direction' = direction
            /\ err' = "InvalidFileFormatError"
            /\ pc' = "c_raised"
       ELSE /\ direction' = _guess_direction(input_file)
            /\ err' = err
            /\ pc' = "c_outpath"
    /\ UNCHANGED <<settings, fs_files, fs_dirs, temp_dirs, next_tmp, io_log, dirs0,
                   call, files, out_dir, bi, results, hist, input_file,
                   output_file, given_output, forced_direction, gen_temp, ret>>

\* convert, lines 57-59
ConvertOutPath ==
    /\ UNCHANGED dec_vars
    /\ pc = "c_outpath"
    /\ output_file' = IF output_file = None
                      THEN _calc_output_path(input_file, direction)
                      ELSE output_file
    /\ pc' = "c_makedirs"
    /\ UNCHANGED <<settings, fs_files, fs_dirs, temp_dirs, next_tmp, io_log, dirs0,
                   call, files, out_dir, bi, results, hist, input_file,
                   given_output, forced_direction, direction, gen_temp, err, ret>>

\* convert, lines 61-64; os.makedirs raises OSError where it cannot create
ConvertMakedirs ==
    /\ UNCHANGED dec_vars
    /\ pc = "c_makedirs"
    /\ LET d == output_file.dir
       IN  IF d = ""
           THEN /\ UNCHANGED <<fs_dirs, io_log, err>>
                /\ pc' = "c_dispatch"
           ELSE IF d \in Uncreatable
           THEN /\ Log("makedirs")
                /\ err' = "OSError"
                /\ pc' = "c_raised"
                /\ UNCHANGED fs_dirs
           ELSE /\ Log("makedirs")
                /\ fs_dirs' = fs_dirs \cup { d }
                /\ pc' = "c_dispatch"
                /\ UNCHANGED err
    /\ UNCHANGED <<settings, fs_files, temp_dirs, next_tmp, dirs0, call, files,
                   out_dir, bi, results, hist, input_file, output_file,
                   given_output, forced_direction, direction, gen_temp, ret>>

\* a _run_latex_gen without its extension check
run_latex_gen_unchecked ==
    /\ Log("LatexGenerator")
    /\ gen_temp' = 0
    /\ pc' = "lg_load"
    /\ UNCHANGED err

\* _run_latex_gen, lines 98-101: the extension check, then LatexGenerator(...)
_run_latex_gen ==
    IF ~ is_valid_file(input_file, { "docx" })
    THEN /\ err' = "InvalidFileFormatError"
         /\ pc' = "c_raised"
         /\ UNCHANGED <<io_log, gen_temp>>
    ELSE /\ Log("LatexGenerator")
         /\ gen_temp' = 0
         /\ pc' = "lg_load"
         /\ UNCHANGED err

\* _run_docx_gen, lines 112-115: the extension check, then DocxGenerator(...)
_run_docx_gen ==
    IF ~ is_valid_file(input_file, { "tex", "latex" })
    THEN /\ err' = "InvalidFileFormatError"
         /\ pc' = "c_raised"
         /\ UNCHANGED <<io_log, gen_temp>>
    ELSE /\ Log("DocxGenerator")
         /\ pc' = "dg_read"
         /\ UNCHANGED <<err, gen_temp>>

\* convert, lines 66-77: the dispatch (the except clause re-raises)
ConvertDispatch ==
    /\ UNCHANGED dec_vars
    /\ pc = "c_dispatch"
    /\ IF direction = "to_latex" THEN _run_latex_gen
       ELSE IF direction = "to_docx" THEN _run_docx_gen
       ELSE /\ err' = "ConversionError"
            /\ pc' = "c_raised"
            /\ UNCHANGED <<io_log, gen_temp>>
    /\ UNCHANGED <<settings, fs_files, fs_dirs, temp_dirs, next_tmp, dirs0, call,
                   files, out_dir, bi, results, hist, input_file, output_file,
                   given_output, forced_direction, direction, ret>>

\* LatexGenerator.convert, line 45: Document(docx_path); any exception is
\* wrapped into ConversionError (lines 64-67)
LgLoad ==
    /\ UNCHANGED dec_vars
    /\ pc = "lg_load"
    /\ Log("LatexGenerator.convert")
    /\ IF input_file \in Corrupt
       THEN err' = "ConversionError" /\ pc' = "c_raised"
       ELSE err' = err /\ pc' = "lg_temp"
    /\ UNCHANGED <<settings, fs_files, fs_dirs, temp_dirs, next_tmp, dirs0, call,
                   files, out_dir, bi, results, hist, input_file, output_file,
                   given_output, forced_direction, direction, gen_temp, ret>>

\* LatexGenerator.convert, lines 48-49: the temporary workspace
LgTemp ==
    /\ UNCHANGED dec_vars
    /\ pc = "lg_temp"
    /\ IF settings.preserve_images
       THEN /\ gen_temp' = next_tmp
            /\ temp_dirs' = temp_dirs \cup { next_tmp }
            /\ next_tmp' = next_tmp + 1
            /\ Log("get_temp_dir")
       ELSE UNCHANGED <<gen_temp, temp_dirs, next_tmp, io_log>>
    /\ pc' = "lg_write"
    /\ UNCHANGED <<settings, fs_files, fs_dirs, dirs0, call, files, out_dir, bi,
                   results, hist, input_file, output_file, given_output,
                   forced_direction, direction, err, ret>>

\* LatexGenerator.convert, lines 52-62: build the text and write it; building
\* or writing may fail (wrapped into ConversionError, lines 64-67)
LgWrite ==
    /\ UNCHANGED dec_vars
    /\ pc = "lg_write"
    /\ \E ok \in BOOLEAN :
          IF ok
          THEN /\ Log("open_write")
               /\ fs_files' = fs_files \cup { output_file }
               /\ ret' = output_file
               /\ pc' = "c_cleanup"
               /\ UNCHANGED err
          ELSE /\ err' = "ConversionError"
               /\ pc' = "c_raised"
               /\ UNCHANGED <<io_log, fs_files, ret>>
    /\ UNCHANGED <<settings, fs_dirs, temp_dirs, next_tmp, dirs0, call, files,
                   out_dir, bi, results, hist, input_file, output_file,
                   given_output, forced_direction, direction, gen_temp>>

\* _run_latex_gen, lines 104-108: cleanup of the workspace, then return res
ConvertCleanup ==
    /\ UNCHANGED dec_vars
    /\ pc = "c_cleanup"
    /\ IF settings.clean_temp_files /\ gen_temp # 0
       THEN /\ temp_dirs' = temp_dirs \ { gen_temp }
            /\ Log("cleanup_temp_dir")
       ELSE UNCHANGED <<temp_dirs, io_log>>
    /\ pc' = "c_returned"
    /\ UNCHANGED <<settings, fs_files, fs_dirs, next_tmp, dirs0, call, files,
                   out_dir, bi, results, hist, input_file, output_file,
                   given_output, forced_direction, direction, gen_temp, err, ret>>

\* DocxGenerator.convert, lines 35-36: read the markup file
DgRead ==
    /\ UNCHANGED dec_vars
    /\ pc = "dg_read"
    /\ io_log' = io_log \o <<"DocxGenerator.convert", "open_read">>
    /\ IF input_file \in Corrupt
       THEN err' = "ConversionError" /\ pc' = "c_raised"
       ELSE err' = err /\ pc' = "dg_save"
    /\ UNCHANGED <<settings, fs_files, fs_dirs, temp_dirs, next_tmp, dirs0, call,
                   files, out_dir, bi, results, hist, input_file, output_file,
                   given_output, forced_direction, direction, gen_temp, ret>>

\* DocxGenerator.convert, lines 39-51: build the document and save it; the
\* save may fail (wrapped into ConversionError, lines 53-55)
DgSave ==
    /\ UNCHANGED dec_vars
    /\ pc = "dg_save"
    /\ \E ok \in BOOLEAN :
          IF ok
          THEN /\ Log("open_write")
               /\ fs_files' = fs_files \cup { output_file }
               /\ ret' = output_file
               /\ pc' = "c_returned"
               /\ UNCHANGED err
          ELSE /\ err' = "ConversionError"
               /\ pc' = "c_raised"
               /\ UNCHANGED <<io_log, fs_files, ret>>
    /\ UNCHANGED <<settings, fs_dirs, temp_dirs, next_tmp, dirs0, call, files,
                   out_dir, bi, results, hist, input_file, output_file,
                   given_output, forced_direction, direction, gen_temp>>

\* convert returns its result to its caller
ConvertReturn ==
    /\ UNCHANGED dec_vars
    /\ pc = "c_returned"
    /\ IF call = "batch"
       THEN /\ hist' = Append(hist, [f |-> input_file, out |-> ret])
            /\ pc' = "b_append"
       ELSE /\ hist' = hist
            /\ pc' = "done"
    /\ UNCHANGED <<settings, fs_files, fs_dirs, temp_dirs, next_tmp, io_log, dirs0,
                   call, files, out_dir, bi, results, input_file, output_file,
                   given_output, forced_direction, direction, gen_temp, err, ret>>

\* an exception leaves convert
ConvertRaise ==
    /\ UNCHANGED dec_vars
    /\ pc = "c_raised"
    /\ IF call = "batch"
       THEN /\ hist' = Append(hist, [f |-> input_file, out |-> None])
            /\ pc' = "b_except"
       ELSE /\ hist' = hist
            /\ pc' = "done"
    /\ UNCHANGED <<settings, fs_files, fs_dirs, temp_dirs, next_tmp, io_log, dirs0,
                   call, files, out_dir, bi, results, input_file, output_file,
                   given_output, forced_direction, direction, gen_temp, err, ret>>

\* DocTeXConverter.batch is entered: results = []
CallBatch ==
    /\ UNCHANGED dec_vars
    /\ pc = "idle"
    /\ \E fl \in SeqsUpTo(InputPaths, MaxFiles), od \in OutDirs :
          /\ files' = fl
          /\ out_dir' = od
    /\ call' = "batch"
    /\ results' = <<>>
    /\ bi' = 1
    /\ pc' = "b_loop"
    /\ UNCHANGED <<settings, fs_files, fs_dirs, temp_dirs, next_tmp, io_log, dirs0,
                   hist, input_file, output_file, given_output, forced_direction,
                   direction, gen_temp, err, ret>>

\* batch, lines 121-124 and 131-134: the next f of the loop, or return results
BatchLoop ==
    /\ UNCHANGED dec_vars
    /\ pc = "b_loop"
    /\ IF bi > Len(files)
       THEN /\ ret' = results
            /\ pc' = "done"
            /\ UNCHANGED <<io_log, dirs0, input_file, output_file, given_output,
                           forced_direction, direction>>
       ELSE /\ input_file' = files[bi]
            /\ io_log' = <<>>
            /\ dirs0' = fs_dirs
            /\ output_file' = None
            /\ given_output' = None
            /\ forced_direction' = "None"
            /\ direction' = "None"
            /\ pc' = IF out_dir # "" THEN "b_makedirs" ELSE "c_exists"
            /\ UNCHANGED ret
    /\ UNCHANGED <<settings, fs_files, fs_dirs, temp_dirs, next_tmp, call, files,
                   out_dir, bi, results, hist, gen_temp, err>>

\* batch, line 125
BatchMakedirs ==
    /\ UNCHANGED dec_vars
    /\ pc = "b_makedirs"
    /\ Log("makedirs")
    /\ IF out_dir \in Uncreatable
       THEN /\ err' = "OSError"
            /\ hist' = Append(hist, [f |-> input_file, out |-> None])
            /\ pc' = "b_except"
            /\ UNCHANGED fs_dirs
       ELSE /\ fs_dirs' = fs_dirs \cup { out_dir }
            /\ pc' = "b_guess"
            /\ UNCHANGED <<err, hist>>
    /\ UNCHANGED <<settings, fs_files, temp_dirs, next_tmp, dirs0, call, files,
                   out_dir, bi, results, input_file, output_file, given_output,
                   forced_direction, direction, gen_temp, ret>>

\* batch, lines 126-130 and 134: the target path, then convert(f, target)
BatchGuess ==
    /\ UNCHANGED dec_vars
    /\ pc = "b_guess"
    /\ LET name == input_file.stem
           d    == _guess_direction(input_file)
           ext  == IF d = "to_latex" THEN "tex" ELSE "docx"
       IN  IF d = "InvalidFileFormatError"
           THEN /\ err' = "InvalidFileFormatError"
                /\ hist' = Append(hist, [f |-> input_file, out |-> None])
                /\ pc' = "b_except"
                /\ UNCHANGED <<output_file, given_output>>
           ELSE /\ output_file' = path_join(out_dir, name, ext)
                /\ given_output' = path_join(out_dir, name, ext)
                /\ pc' = "c_exists"
                /\ UNCHANGED <<err, hist>>
    /\ UNCHANGED <<settings, fs_files, fs_dirs, temp_dirs, next_tmp, io_log, dirs0,
                   call, files, out_dir, bi, results, input_file,
                   forced_direction, direction, gen_temp, ret>>

\* batch, line 134: results.append(<what convert returned>)
BatchAppend ==
    /\ UNCHANGED dec_vars
    /\ pc = "b_append"
    /\ results' = Append(results, ret)
    /\ bi' = bi + 1
    /\ pc' = "b_loop"
    /\ UNCHANGED <<settings, fs_files, fs_dirs, temp_dirs, next_tmp, io_log, dirs0,
                   call, files, out_dir, hist, input_file, output_file,
                   given_output, forced_direction, direction, gen_temp, err, ret>>

\* a batch whose except clause gives up on the rest of the list
BatchExceptAbort ==
    /\ UNCHANGED dec_vars
    /\ pc = "b_except"
    /\ ret' = results
    /\ err' = "none"
    /\ pc' = "done"
    /\ UNCHANGED <<settings, fs_files, fs_dirs, temp_dirs, next_tmp, io_log, dirs0,
                   call, files, out_dir, bi, results, hist, input_file,
                   output_file, given_output, forced_direction, direction, gen_temp>>

\* batch, lines 135-137: the item is skipped, None is recorded
BatchExcept ==
    /\ UNCHANGED dec_vars
    /\ pc = "b_except"
    /\ results' = Append(results, None)
    /\ bi' = bi + 1
    /\ err' = "none"
    /\ pc' = "b_loop"
    /\ UNCHANGED <<settings, fs_files, fs_dirs, temp_dirs, next_tmp, io_log, dirs0,
                   call, files, out_dir, hist, input_file, output_file,
                   given_output, forced_direction, direction, gen_temp, ret>>

\* nothing is in progress in the orchestrator
OrchIdle ==
    /\ fs_files = ExistingInputs
    /\ fs_dirs = { "", "in", "in2" }
    /\ temp_dirs = {}
    /\ next_tmp = 1
    /\ io_log = <<>>
    /\ dirs0 = { "", "in", "in2" }
    /\ call = "none"
    /\ pc = "idle"
    /\ files = <<>>
    /\ out_dir = ""
    /\ bi = 1
    /\ results = <<>>
    /\ hist = <<>>
    /\ input_file = None
    /\ output_file = None
    /\ given_output = None
    /\ forced_direction = "None"
    /\ direction = "None"
    /\ gen_temp = 0
    /\ err = "none"
    /\ ret = None

NoSrc ==
    [kind |-> "none", body |-> <<>>, opts |-> <<>>, blks |-> <<>>, order |-> <<>>,
     pre |-> <<>>, post |-> <<>>, widths |-> <<>>, style |-> ""]

\* no decoder is running
DecIdle ==
    /\ src = NoSrc
    /\ content = <<>>
    /\ blocks = <<>>
    /\ bk_i = 1
    /\ word_doc = <<>>
    /\ todo = <<>>
    /\ text = <<>>
    /\ idx = 0
    /\ dispatched = <<>>
    /\ d_pc = "idle"

\* DocTeXConverter.__init__ has run: the options are set, nothing is in progress
Init ==
    /\ settings \in [preserve_images : BOOLEAN, clean_temp_files : BOOLEAN]
    /\ OrchIdle
    /\ DecIdle

Next ==
    \/ CallConvert
    \/ ConvertExists
    \/ ConvertDirection
    \/ ConvertOutPath
    \/ ConvertMakedirs
    \/ ConvertDispatch
    \/ LgLoad
    \/ LgTemp
    \/ LgWrite
    \/ ConvertCleanup
    \/ DgRead
    \/ DgSave
    \/ ConvertReturn
    \/ ConvertRaise
    \/ CallBatch
    \/ BatchLoop
    \/ BatchMakedirs
    \/ BatchGuess
    \/ BatchAppend
    \/ BatchExcept

Spec == Init /\ [][Next]_vars

-----------------------------------------------------------------------------
(* Text: Python's str and re operations on token sequences.  Positions are *)
(* 0-based as in Python; s[a:b] is Slice(s, a, b).                         *)

Min(S) == CHOOSE x \in S : \A y \in S : x <= y
Max(S) == CHOOSE x \in S : \A y \in S : x >= y

\* \s of the re module
WS == { " ", "\n" }

Slice(s, a, b) == SubSeq(s, a + 1, b)
Drop(s, a) == SubSeq(s, a + 1, Len(s))
Take(s, b) == SubSeq(s, 1, b)

RECURSIVE Concat(_)
Concat(ss) == IF ss = <<>> THEN <<>> ELSE Head(ss) \o Concat(Tail(ss))

\* sep.join(ss)
RECURSIVE Join(_, _)
Join(ss, sep) ==
    IF ss = <<>> THEN <<>>
    ELSE IF Len(ss) = 1 THEN ss[1]
    ELSE ss[1] \o sep \o Join(Tail(ss), sep)

\* s[i:].startswith(pat)
StartsWithAt(s, pat, i) ==
    /\ i + Len(pat) <= Len(s)
    /\ \A k \in 1..Len(pat) : s[i + k] = pat[k]

\* s.startswith(pat)
StartsWith(s, pat) == StartsWithAt(s, pat, 0)

\* s.find(pat, from): the first position, -1 when there is none
Find(s, pat, from) ==
    LET c == { i \in from..(Len(s) - Len(pat)) : StartsWithAt(s, pat, i) }
    IN  IF c = {} THEN -1 ELSE Min(c)

\* pat in s
Contains(s, pat) == Find(s, pat, 0) # -1

\* the first position >= from holding a token of T, -1 when there is none
FindTok(s, T, from) ==
    LET c == { i \in from..(Len(s) - 1) : s[i + 1] \in T }
    IN  IF c = {} THEN -1 ELSE Min(c)

\* s.strip()
strip(s) ==
    LET keep == { i \in 1..Len(s) : s[i] \notin WS }
    IN  IF keep = {} THEN <<>> ELSE SubSeq(s, Min(keep), Max(keep))

\* s.split(sep)
RECURSIVE split(_, _)
split(s, sep) ==
    LET i == Find(s, sep, 0)
    IN  IF i = -1 THEN <<s>>
        ELSE <<Take(s, i)>> \o split(Drop(s, i + Len(sep)), sep)

\* the end of the match of \n\s*\n that starts at i (s[i] is "\n"): \s* is
\* greedy, so the match ends after the last "\n" of the whitespace run; -1
\* when the run holds no further "\n"
BlankEnd(s, i) ==
    LET stop == { m \in (i + 1)..(Len(s) - 1) : s[m + 1] \notin WS }
        lim  == IF stop = {} THEN Len(s) ELSE Min(stop)
        nl   == { j \in (i + 1)..(lim - 1) : s[j + 1] = "\n" }
    IN  IF nl = {} THEN -1 ELSE Max(nl) + 1

\* re.split(r'\n\s*\n', s)
RECURSIVE re_split_blank(_)
re_split_blank(s) ==
    LET c == { i \in 0..(Len(s) - 1) : s[i + 1] = "\n" /\ BlankEnd(s, i) # -1 }
    IN  IF c = {} THEN <<s>>
        ELSE LET i == Min(c)
             IN  <<Take(s, i)>> \o re_split_blank(Drop(s, BlankEnd(s, i)))

\* a re.Match: start(), end() and group(1); NoMatch is None
NoMatch == [start |-> -1, end |-> -1, group |-> <<>>]

\* open [^close]+ close matched at position i: the position after it, else -1
ArgEnd(s, i, open, close) ==
    IF i < Len(s) /\ s[i + 1] = open
    THEN LET j == FindTok(s, { close }, i + 1)
         IN  IF j > i + 1 THEN j + 1 ELSE -1
    ELSE -1

\* re.search(r'\\kw\{([^}]+)\}', s)
SearchCmd(kw, s) ==
    LET c == { i \in 0..(Len(s) - 1) :
                  StartsWithAt(s, <<"\\", kw>>, i) /\ ArgEnd(s, i + 2, "{", "}") # -1 }
    IN  IF c = {} THEN NoMatch
        ELSE LET i == Min(c)
                 e == ArgEnd(s, i + 2, "{", "}")
             IN  [start |-> i, end |-> e, group |-> Slice(s, i + 3, e - 1)]

\* re.search(r'\$([^$]+)\$', s)
SearchMath(s) ==
    LET c == { i \in 0..(Len(s) - 1) : ArgEnd(s, i, "$", "$") # -1 }
    IN  IF c = {} THEN NoMatch
        ELSE LET i == Min(c)
                 e == ArgEnd(s, i, "$", "$")
             IN  [start |-> i, end |-> e, group |-> Slice(s, i + 1, e - 1)]

\* re.search(r'\\open(.*?)\\close', s, re.DOTALL) for two literal texts
SearchBetween(s, open, close) ==
    LET b == Find(s, open, 0)
        e == IF b = -1 THEN -1 ELSE Find(s, close, b + Len(open))
    IN  IF e = -1 THEN NoMatch
        ELSE [start |-> b, end |-> e + Len(close), group |-> Slice(s, b + Len(open), e)]

-----------------------------------------------------------------------------
(* utils.py is not part of the sources: escape_latex and unescape_latex    *)
(* are modelled as the two directions of backslash-escaping the markup's   *)
(* special characters.                                                     *)

Specials == { "&", "%", "$", "#", "_", "{", "}" }

\* utils.escape_latex
escape_latex(t) ==
    Concat([i \in 1..Len(t) |-> IF t[i] \in Specials THEN <<"\\", t[i]>> ELSE <<t[i]>>])

\* utils.unescape_latex
RECURSIVE unescape_latex(_)
unescape_latex(t) ==
    IF t = <<>> THEN <<>>
    ELSE IF Len(t) >= 2 /\ t[1] = "\\" /\ t[2] \in Specials
    THEN <<t[2]>> \o unescape_latex(Drop(t, 2))
    ELSE <<t[1]>> \o unescape_latex(Tail(t))

-----------------------------------------------------------------------------
(* docx.py: the reconstructors, as functions from a block to what they add *)

BEGIN(env) == <<"\\", "begin", "{", env, "}">>
END(env) == <<"\\", "end", "{", env, "}">>

\* os.path.exists for the image paths of the model, and the images that
\* exist but that add_picture cannot load
ExistingImages == { <<"y">>, <<"z">> }
BrokenImages == { <<"z">> }

\* Document.add_paragraph(text): a paragraph of one plain run
TextParagraph(t) ==
    [kind |-> "paragraph", style |-> "Normal", align |-> "none",
     runs |-> <<[text |-> t, bold |-> FALSE, italic |-> FALSE, underline |-> FALSE]>>]

\* Document.add_paragraph(style=...): an empty paragraph
EmptyParagraph(style, align) ==
    [kind |-> "paragraph", style |-> style, align |-> align, runs |-> <<>>]

\* the number of "sub" tokens that follow position i
RECURSIVE SubRun(_, _)
SubRun(s, i) == IF i < Len(s) /\ s[i + 1] = "sub" THEN 1 + SubRun(s, i + 1) ELSE 0

\* re.search(r'\\(?:sub)*section\{([^}]+)\}', block)
SearchHeading(s) ==
    LET sec(i) == i + 1 + SubRun(s, i + 1)
        ok(i)  == /\ s[i + 1] = "\\"
                  /\ sec(i) < Len(s) /\ s[sec(i) + 1] = "section"
                  /\ ArgEnd(s, sec(i) + 1, "{", "}") # -1
        c == { i \in 0..(Len(s) - 1) : ok(i) }
    IN  IF c = {} THEN NoMatch
        ELSE LET i == Min(c)
                 e == ArgEnd(s, sec(i) + 1, "{", "}")
             IN  [start |-> i, end |-> e, group |-> Slice(s, sec(i) + 2, e - 1)]

\* DocxGenerator._add_heading: the elements it appends to the document
_add_heading(block, level) ==
    LET m == SearchHeading(block)
    IN  IF m # NoMatch
        THEN <<[kind |-> "heading", level |-> level, text |-> unescape_latex(m.group)]>>
        ELSE <<>>

\* re.search(r'\\begin\{tabular\}\{[^}]+\}(.*?)\\end\{tabular\}', block, re.DOTALL)
SearchTabular(s) ==
    LET arg(i) == ArgEnd(s, i + 5, "{", "}")
        fin(i) == IF arg(i) = -1 THEN -1 ELSE Find(s, END("tabular"), arg(i))
        c == { i \in 0..(Len(s) - 1) : StartsWithAt(s, BEGIN("tabular"), i) /\ fin(i) # -1 }
    IN  IF c = {} THEN NoMatch
        ELSE LET i == Min(c)
             IN  [start |-> i, end |-> fin(i) + 5, group |-> Slice(s, arg(i), fin(i))]

IsNonEmpty(r) == r # <<>>
NotCommand(r) == ~ StartsWith(r, <<"\\">>)

\* _add_table, lines 183-188: the rows that survive
TableLines(rows_text) ==
    LET parts == split(rows_text, <<"\\", "\\">>)
        lines == SelectSeq([i \in 1..Len(parts) |-> strip(parts[i])], IsNonEmpty)
    IN  SelectSeq(lines, NotCommand)

\* a table whose column count is the widest row's
TableOfWidest(lines) ==
    LET cellsOf(r) == split(lines[r], <<"&">>)
        num_c == Max({ Len(cellsOf(r)) : r \in 1..Len(lines) })
    IN  [kind |-> "table", nrows |-> Len(lines), ncols |-> num_c,
         cells |-> [r \in 1..Len(lines) |->
                      [c \in 1..num_c |->
                          IF c <= Len(cellsOf(r))
                          THEN unescape_latex(strip(cellsOf(r)[c]))
                          ELSE <<>>]]]

\* _add_table, lines 193-205: the table built from the surviving rows
TableOf(lines) ==
    LET cellsOf(r) == split(lines[r], <<"&">>)
        num_c == Len(cellsOf(1))
    IN  [kind |-> "table", nrows |-> Len(lines), ncols |-> num_c,
         cells |-> [r \in 1..Len(lines) |->
                      [c \in 1..num_c |->
                          IF c <= Len(cellsOf(r))
                          THEN unescape_latex(strip(cellsOf(r)[c]))
                          ELSE <<>>]]]

\* DocxGenerator._add_table: the elements it appends to the document
_add_table(block) ==
    LET tab_m == SearchTabular(block)
    IN  IF tab_m = NoMatch THEN <<>>
        ELSE LET lines == TableLines(strip(tab_m.group))
             IN  IF lines = <<>> THEN <<>> ELSE <<TableOf(lines)>>

\* re.search(r'\\includegraphics(?:\[[^\]]+\])?\{([^}]+)\}', block)
SearchGraphics(s) ==
    LET opt(i) == ArgEnd(s, i + 2, "[", "]")
        at(i)  == IF opt(i) # -1 /\ ArgEnd(s, opt(i), "{", "}") # -1 THEN opt(i) ELSE i + 2
        c == { i \in 0..(Len(s) - 1) :
                  StartsWithAt(s, <<"\\", "includegraphics">>, i)
                  /\ ArgEnd(s, at(i), "{", "}") # -1 }
    IN  IF c = {} THEN NoMatch
        ELSE LET i == Min(c)
                 e == ArgEnd(s, at(i), "{", "}")
             IN  [start |-> i, end |-> e, group |-> Slice(s, at(i) + 1, e - 1)]

\* an image reconstructor that inserts the picture without looking for the file
add_image_unchecked(block) ==
    LET m == SearchGraphics(block)
    IN  IF m = NoMatch THEN <<>> ELSE <<[kind |-> "picture", path |-> m.group]>>

\* DocxGenerator._add_image: the elements it appends to the document
_add_image(block) ==
    LET m == SearchGraphics(block)
    IN  IF m = NoMatch THEN <<>>
        ELSE LET img_path == m.group
             IN  IF img_path \in ExistingImages
                 THEN IF img_path \in BrokenImages
                      THEN <<TextParagraph(<<"[Image found but error loading: ">> \o img_path \o <<"]">>)>>
                      ELSE <<[kind |-> "picture", path |-> img_path]>>
                 ELSE <<TextParagraph(<<"[Image file not found: ">> \o img_path \o <<"]">>)>>

\* the lookahead (?=\\item|\n|\\end) holds at position p
ItemStop(s, p) ==
    \/ StartsWithAt(s, <<"\\", "item">>, p)
    \/ (p < Len(s) /\ s[p + 1] = "\n")
    \/ StartsWithAt(s, <<"\\", "end">>, p)

\* the first position >= q where the lookahead holds, -1 when there is none
FirstStop(s, q) ==
    LET c == { p \in q..(Len(s) - 1) : ItemStop(s, p) }
    IN  IF c = {} THEN -1 ELSE Min(c)

\* the number of whitespace tokens that follow position i
RECURSIVE WsRun(_, _)
WsRun(s, i) == IF i < Len(s) /\ s[i + 1] \in WS THEN 1 + WsRun(s, i + 1) ELSE 0

\* \\item\s+(.*?)(?=\\item|\n|\\end) matched at position i: \s+ is greedy and
\* gives whitespace back only when the lookahead holds nowhere after it
ItemMatch(s, i) ==
    LET n == WsRun(s, i + 2)
        K == { k \in 1..n : FirstStop(s, i + 2 + k) # -1 }
    IN  IF ~ StartsWithAt(s, <<"\\", "item">>, i) \/ K = {} THEN NoMatch
        ELSE LET q == i + 2 + Max(K)
                 p == FirstStop(s, q)
             IN  [start |-> i, end |-> p, group |-> Slice(s, q, p)]

\* re.findall(r'\\item\s+(.*?)(?=\\item|\n|\\end)', block, re.DOTALL)
RECURSIVE FindItems(_, _)
FindItems(s, from) ==
    LET c == { i \in from..(Len(s) - 1) : ItemMatch(s, i) # NoMatch }
    IN  IF c = {} THEN <<>>
        ELSE LET m == ItemMatch(s, Min(c))
             IN  <<m.group>> \o FindItems(s, m.end)

\* DocxGenerator._add_list: the paragraphs it adds, each with the text that
\* _apply_inline is called on
_add_list(block) ==
    LET is_num == Contains(block, BEGIN("enumerate"))
        items  == FindItems(block, 0)
        style  == IF is_num THEN "List Number" ELSE "List Bullet"
    IN  [i \in 1..Len(items) |-> [style |-> style, align |-> "none", text |-> strip(items[i])]]

\* DocxGenerator._add_centered: the paragraph it adds, if any
_add_centered(block) ==
    LET m == SearchBetween(block, BEGIN("center"), END("center"))
    IN  IF m = NoMatch THEN <<>>
        ELSE <<[style |-> "Normal", align |-> "center", text |-> strip(m.group)]>>

\* DocxGenerator._add_paragraph: the paragraph it adds
_add_paragraph(block) == <<[style |-> "Normal", align |-> "none", text |-> block]>>

\* a classifier that tests the list openers before the table opener and
\* looks for the heading keywords anywhere in the block
ClassifyLoose(bk) ==
    IF Contains(bk, <<"\\", "section">>) THEN "heading1"
    ELSE IF Contains(bk, <<"\\", "sub", "section">>) THEN "heading2"
    ELSE IF Contains(bk, <<"\\", "sub", "sub", "section">>) THEN "heading3"
    ELSE IF Contains(bk, BEGIN("itemize")) \/ Contains(bk, BEGIN("enumerate")) THEN "list"
    ELSE IF Contains(bk, BEGIN("table")) THEN "table"
    ELSE IF Contains(bk, BEGIN("figure")) THEN "figure"
    ELSE IF Contains(bk, BEGIN("center")) THEN "center"
    ELSE "paragraph"

\* _parse_and_build, lines 93-109: the reconstructor a block is handed to
Classify(bk) ==
    IF StartsWith(bk, <<"\\", "section">>) THEN "heading1"
    ELSE IF StartsWith(bk, <<"\\", "sub", "section">>) THEN "heading2"
    ELSE IF StartsWith(bk, <<"\\", "sub", "sub", "section">>) THEN "heading3"
    ELSE IF Contains(bk, BEGIN("table")) THEN "table"
    ELSE IF Contains(bk, BEGIN("figure")) THEN "figure"
    ELSE IF Contains(bk, BEGIN("itemize")) \/ Contains(bk, BEGIN("enumerate")) THEN "list"
    ELSE IF Contains(bk, BEGIN("center")) THEN "center"
    ELSE "paragraph"

\* _parse_and_build, lines 74-85: the body, split into blocks
BodyBlocks(raw_tex) ==
    LET match == SearchBetween(raw_tex, BEGIN("document"), END("document"))
        doc_body == IF match # NoMatch THEN strip(match.group) ELSE strip(raw_tex)
    IN  re_split_blank(doc_body)

\* _apply_inline, lines 128-133: the patterns, in declaration order
patterns == << <<"textbf", "bold">>, <<"textit", "italic">>,
               <<"underline", "underline">>, <<"$", "math">> >>

SearchPattern(k, s) ==
    IF patterns[k][2] = "math" THEN SearchMath(s) ELSE SearchCmd(patterns[k][1], s)

\* the match of the first pattern, in declaration order, that matches at all
NextMatchFirstPattern(s, k, found) ==
    LET K == { j \in k..Len(patterns) : SearchPattern(j, s) # NoMatch }
    IN  IF K = {} THEN found
        ELSE [m |-> SearchPattern(Min(K), s), type |-> patterns[Min(K)][2]]

\* _apply_inline, lines 137-146: the match that is taken, after patterns k..
RECURSIVE NextMatch(_, _, _)
NextMatch(s, k, found) ==
    IF k > Len(patterns) THEN found
    ELSE LET m == SearchPattern(k, s)
         IN  IF m # NoMatch /\ (found.m = NoMatch \/ m.start < found.m.start)
             THEN NextMatch(s, k + 1, [m |-> m, type |-> patterns[k][2]])
             ELSE NextMatch(s, k + 1, found)

Run(t, type) ==
    [text |-> t, bold |-> type = "bold", italic |-> type \in { "italic", "math" },
     underline |-> type = "underline"]

-----------------------------------------------------------------------------
(* latex.py: the encoder.  A body element of the structured document is    *)
(* [kind, style, align, runs, rows]: a paragraph ("p") with its style      *)
(* name, alignment and runs, or a table ("t") with its rows of cell texts. *)

SrcRun(t, b, i, u) == [text |-> t, bold |-> b, italic |-> i, underline |-> u]
SrcPara(style, align, runs) ==
    [kind |-> "p", style |-> style, align |-> align, runs |-> runs, rows |-> <<>>]
SrcTable(rows) ==
    [kind |-> "t", style |-> "", align |-> "", runs |-> <<>>, rows |-> rows]

\* Paragraph.text
ParaText(para) == Concat([i \in 1..Len(para.runs) |-> para.runs[i].text])

\* style.name.startswith('Heading')
HeadingStyles == { "Heading 1", "Heading 2", "Heading 3", "Heading 4", "Heading 5" }

\* options.document_type.value (the default document class)
document_type == "article"

Wrap(kw, txt) == <<"\\", kw, "{">> \o txt \o <<"}">>

\* LatexGenerator._handle_heading
_handle_heading(para) ==
    LET txt == escape_latex(ParaText(para))
        s_name == para.style
        prefix == IF s_name = "Heading 1" /\ document_type \in { "report", "thesis" }
                  THEN <<"\\", "clearpage", "\n">> ELSE <<>>
    IN  IF s_name = "Heading 1" THEN prefix \o <<"\\", "section", "{">> \o txt \o <<"}">>
        ELSE IF s_name = "Heading 2" THEN <<"\\", "sub", "section", "{">> \o txt \o <<"}">>
        ELSE IF s_name = "Heading 3" THEN <<"\\", "sub", "sub", "section", "{">> \o txt \o <<"}">>
        ELSE IF s_name = "Heading 4" THEN <<"\\", "paragraph", "{">> \o txt \o <<"}">>
        ELSE <<"\\", "sub", "paragraph", "{">> \o txt \o <<"}">>

\* _handle_paragraph, lines 179-196: one run
RunTex(run) ==
    LET t0 == escape_latex(run.text)
        t1 == IF run.bold THEN Wrap("textbf", t0) ELSE t0
        t2 == IF run.italic THEN Wrap("textit", t1) ELSE t1
    IN  IF run.underline THEN Wrap("underline", t2) ELSE t2

\* LatexGenerator._handle_paragraph
_handle_paragraph(para) ==
    IF strip(ParaText(para)) = <<>> THEN <<>>
    ELSE IF para.style \in HeadingStyles THEN _handle_heading(para)
    ELSE LET clean_text == Concat([i \in 1..Len(para.runs) |-> RunTex(para.runs[i])])
         IN  IF para.align = "center"
             THEN BEGIN("center") \o <<"\n">> \o clean_text \o <<"\n">> \o END("center")
             ELSE IF para.align = "right"
             THEN BEGIN("flushright") \o <<"\n">> \o clean_text \o <<"\n">> \o END("flushright")
             ELSE clean_text

\* "|" + "|".join(["c"] * col_count) + "|"
col_def(col_count) ==
    <<"|">> \o Join([i \in 1..col_count |-> <<"c">>], <<"|">>) \o <<"|">>

\* _handle_table, lines 253-268: the lines of one row
RowBits(rows, i) ==
    LET cells == [c \in 1..Len(rows[i]) |-> escape_latex(strip(rows[i][c]))]
        row_str == Join(cells, <<" ", "&", " ">>) \o <<" ", "\\", "\\">>
    IN  << row_str, IF i = 1 THEN <<"\\", "midrule">> ELSE <<"\\", "hline">> >>

\* LatexGenerator._handle_table
_handle_table(rows) ==
    IF rows = <<>> THEN <<>>
    ELSE LET col_count == Len(rows[1])
             bits == << BEGIN("table") \o <<"[", "h!", "]">>,
                        <<"\\", "centering">>,
                        BEGIN("tabular") \o <<"{">> \o col_def(col_count) \o <<"}">>,
                        <<"\\", "toprule">> >>
                     \o Concat([i \in 1..Len(rows) |-> RowBits(rows, i)])
                     \o << <<"\\", "bottomrule">>,
                           END("tabular"),
                           <<"\\", "caption", "{", "Automated Table from Word", "}">>,
                           END("table") >>
         IN  Join(bits, <<"\n">>)

\* LatexGenerator._parse_body
_parse_body(body) ==
    LET tex(el) == IF el.kind = "p" THEN _handle_paragraph(el) ELSE _handle_table(el.rows)
    IN  Join(SelectSeq([i \in 1..Len(body) |-> tex(body[i])], IsNonEmpty), <<"\n", "\n">>)

\* LatexGenerator._make_preamble: the document class line and one of the
\* package lines.  The other lines are package lines chosen by the options;
\* none of them opens or closes a document environment.
_make_preamble ==
    <<"\\", "documentclass", "[", "12pt", "]", "{", document_type, "}", "\n", "\n",
      "\\", "usepackage", "{", "hyperref", "}", "\n">>

\* LatexGenerator._build_document
_build_document(body, options) ==
    LET c1 == IF options.include_preamble /\ options.standalone_document
              THEN << _make_preamble >> ELSE <<>>
        c2 == IF options.standalone_document THEN << BEGIN("document") \o <<"\n">> >> ELSE <<>>
        c3 == << _parse_body(body) >>
        c4 == IF options.standalone_document THEN << <<"\n">> \o END("document") >> ELSE <<>>
    IN  Join(c1 \o c2 \o c3 \o c4, <<"\n">>)

-----------------------------------------------------------------------------
(* The markup texts the decoder is run on.  src records how each was made: *)
(*   "paras"   a structured document of paragraphs, encoded by the encoder *)
(*   "table"   one table of rows of given widths, encoded by the encoder   *)
(*             ("encoder") or written without rule commands ("plain") or   *)
(*             with a rule before the first row only ("toprule")           *)
(*   "nested"  one inner text inside nested bold, italic, underline        *)
(*   "raw"     hand-written blocks, separated by blank lines               *)

\* Most paragraphs of an encoded document
MaxParas == 2
\* Most blocks before and after the block under test of a raw document
MaxAround == 1
\* Most rows and most cells per row of a table
MaxRows == 3
MaxCols == 3

NoOpts == [standalone_document |-> FALSE, include_preamble |-> FALSE]

EncOptions == { [standalone_document |-> TRUE, include_preamble |-> TRUE], NoOpts }

ParaPool ==
    { SrcPara("Normal", "none", <<SrcRun(<<"a">>, b, i, u)>>) : b \in BOOLEAN, i \in BOOLEAN, u \in BOOLEAN }
    \cup
    { SrcPara("Normal", "none", <<SrcRun(<<"a", " ">>, FALSE, FALSE, FALSE), SrcRun(<<"b">>, TRUE, FALSE, FALSE)>>),
      SrcPara("Normal", "none", <<SrcRun(<<"a">>, TRUE, FALSE, FALSE), SrcRun(<<"b">>, FALSE, TRUE, FALSE)>>),
      SrcPara("Normal", "none", <<SrcRun(<<"a", "&", "b">>, FALSE, FALSE, TRUE)>>),
      SrcPara("Normal", "center", <<SrcRun(<<"a">>, TRUE, FALSE, FALSE)>>),
      SrcPara("Heading 2", "none", <<SrcRun(<<"a">>, FALSE, FALSE, FALSE)>>),
      SrcPara("Normal", "none", <<SrcRun(<<" ">>, FALSE, FALSE, FALSE)>>) }

ParaSrcs ==
    { [kind |-> "paras", body |-> d, opts |-> o, blks |-> <<>>, order |-> <<>>,
       pre |-> <<>>, post |-> <<>>, widths |-> <<>>, style |-> ""] :
         d \in SeqsUpTo(ParaPool, MaxParas) \ { <<>> }, o \in EncOptions }

\* the text of the cell in row r, column c
RowTok == <<"p", "q", "r", "s", "t">>
ColTok == <<"a", "b", "c", "d", "e">>
CellText(r, c) == <<RowTok[r], ColTok[c]>>
CellRows(widths) == [r \in 1..Len(widths) |-> [c \in 1..widths[r] |-> CellText(r, c)]]

TableStyles == { "plain", "toprule", "encoder" }

TableSrcs ==
    { [kind |-> "table", body |-> <<>>, opts |-> NoOpts, blks |-> <<>>, order |-> <<>>,
       pre |-> <<>>, post |-> <<>>, widths |-> w, style |-> st] :
         w \in SeqsUpTo(1..MaxCols, MaxRows), st \in TableStyles }

\* a table block written by hand: the rows, each ended by the row separator
HandTable(widths, style) ==
    LET rows == CellRows(widths)
        line(r) == Join(rows[r], <<" ", "&", " ">>) \o <<" ", "\\", "\\", "\n">>
    IN  BEGIN("table") \o <<"\n">>
        \o BEGIN("tabular") \o <<"{">> \o col_def(IF widths = <<>> THEN 1 ELSE widths[1]) \o <<"}", "\n">>
        \o (IF style = "toprule" THEN <<"\\", "toprule", "\n">> ELSE <<>>)
        \o Concat([r \in 1..Len(rows) |-> line(r)])
        \o END("tabular") \o <<"\n">> \o END("table")

Markers == { "textbf", "textit", "underline" }

Orders == { o \in [1..3 -> Markers] : \A i, j \in 1..3 : i # j => o[i] # o[j] }

NestedSrcs ==
    { [kind |-> "nested", body |-> <<>>, opts |-> NoOpts, blks |-> <<>>, order |-> o,
       pre |-> a, post |-> b, widths |-> <<>>, style |-> ""] :
         o \in Orders, a \in { <<>>, <<"a", " ">> }, b \in { <<>>, <<" ", "b">> } }

\* inner enclosed by the markers of order, the first outermost
Nest(order, inner) ==
    Wrap(order[1], Wrap(order[2], Wrap(order[3], inner)))

Cmd(kw) == <<"\\", kw>>

B_section == Cmd("section") \o <<"{", "a", "}">>
B_subsection == <<"\\", "sub", "section", "{", "a", "}">>
B_subsubsection == <<"\\", "sub", "sub", "section", "{", "a", " ", "b", "}">>
B_section_untitled == Cmd("section") \o <<"{", "}">>
B_heading_table == <<"\\", "sub", "sub", "section", "{", "a", "}", "\n">> \o BEGIN("table")
B_table == HandTable(<<2, 2>>, "plain")
B_table_no_tabular == BEGIN("table") \o <<"\n", "a", "\n">> \o END("table")
B_table_no_rows == HandTable(<<>>, "plain")
B_table_list ==
    BEGIN("table") \o <<"\n">> \o BEGIN("itemize") \o <<"\n">> \o Cmd("item") \o <<" ", "a", "\n">>
    \o END("itemize") \o <<"\n">> \o END("table")
B_figure == BEGIN("figure") \o <<"\n">> \o Cmd("includegraphics") \o <<"{", "y", "}", "\n">> \o END("figure")
B_figure_missing ==
    BEGIN("figure") \o <<"\n">> \o Cmd("includegraphics") \o <<"[", "w", "]", "{", "n", "}", "\n">> \o END("figure")
B_figure_broken == BEGIN("figure") \o <<"\n">> \o Cmd("includegraphics") \o <<"{", "z", "}", "\n">> \o END("figure")
B_figure_empty == BEGIN("figure") \o <<"\n", "a", "\n">> \o END("figure")
B_itemize ==
    BEGIN("itemize") \o <<"\n">> \o Cmd("item") \o <<" ", "a", "\n">>
    \o Cmd("item") \o <<" ">> \o Wrap("textbf", <<"b">>) \o <<"\n">> \o END("itemize")
B_enumerate ==
    BEGIN("enumerate") \o <<"\n">> \o Cmd("item") \o <<" ", "a", "\n">> \o END("enumerate")
B_itemize_wrapped ==
    BEGIN("itemize") \o <<"\n">> \o Cmd("item") \o <<" ", "a", "\n", "b", "\n">>
    \o Cmd("item") \o <<" ", "c", "\n">> \o END("itemize")
B_center_list ==
    BEGIN("center") \o <<"\n">> \o BEGIN("itemize") \o <<"\n">> \o Cmd("item") \o <<" ", "a", "\n">>
    \o END("itemize") \o <<"\n">> \o END("center")
B_center == BEGIN("center") \o <<"\n", "a", "\n">> \o END("center")
B_center_open == BEGIN("center") \o <<"\n", "a">>
B_plain == <<"a", " ", "b">>
B_inline == <<"a", " ">> \o Wrap("textit", <<"b">>) \o <<" ", "$", "c", "$">>
B_inline_rev == Wrap("underline", <<"a">>) \o <<" ">> \o Wrap("textbf", <<"b">>)
B_empty_marker == <<"a", " ">> \o Cmd("textbf") \o <<"{", "}", " ", "b">>
B_late_section == <<"a", " ">> \o Cmd("section") \o <<"{", "b", "}">>

\* the blocks under test
BlockPool ==
    { B_section, B_subsection, B_subsubsection, B_section_untitled, B_heading_table,
      B_table, B_table_no_tabular, B_table_no_rows, B_table_list,
      B_figure, B_figure_missing, B_figure_broken, B_figure_empty,
      B_itemize, B_enumerate, B_itemize_wrapped, B_center_list, B_center, B_center_open,
      B_plain, B_inline, B_inline_rev, B_empty_marker, B_late_section }

\* the blocks put before and after the block under test
AroundPool == { B_plain, B_section, B_itemize }

RawSrcs ==
    { [kind |-> "raw", body |-> <<>>, opts |-> NoOpts, blks |-> bs, order |-> <<>>,
       pre |-> <<>>, post |-> <<>>, widths |-> <<>>, style |-> ""] :
         bs \in { a \o <<b>> \o c : a \in SeqsUpTo(AroundPool, MaxAround),
                                       b \in BlockPool,
                                       c \in SeqsUpTo(AroundPool, MaxAround) }
                \cup { <<>>, << <<" ", "\n">> >> } }

DecInputs == ParaSrcs \cup TableSrcs \cup NestedSrcs \cup RawSrcs

\* the markup text of an input
MarkupOf(sr) ==
    CASE sr.kind = "paras"  -> _build_document(sr.body, sr.opts)
      [] sr.kind = "table"  -> IF sr.style = "encoder"
                               THEN _parse_body(<<SrcTable(CellRows(sr.widths))>>)
                               ELSE HandTable(sr.widths, sr.style)
      [] sr.kind = "nested" -> sr.pre \o Nest(sr.order, <<"x">>) \o sr.post
      [] OTHER              -> Join(sr.blks, <<"\n", "\n">>)

-----------------------------------------------------------------------------
(* docx.py: DocxGenerator._parse_and_build, one block per step, and        *)
(* _apply_inline, one iteration of its loop per step                       *)

\* DocxGenerator.convert, lines 35-45: the text is read, the empty document
\* is created and _parse_and_build splits the body into blocks
DecStart ==
    /\ d_pc = "start"
    /\ blocks' = BodyBlocks(content)
    /\ bk_i' = 1
    /\ word_doc' = <<>>
    /\ d_pc' = "blocks"
    /\ UNCHANGED <<src, content, todo, text, idx, dispatched>>
    /\ UNCHANGED orch_vars

\* _parse_and_build, lines 87-109: one block of the for loop
DecBlock ==
    /\ d_pc = "blocks"
    /\ bk_i <= Len(blocks)
    /\ LET bk == strip(blocks[bk_i])
           rule == Classify(bk)
       IN  IF bk = <<>>
           THEN /\ bk_i' = bk_i + 1
                /\ UNCHANGED <<word_doc, todo, dispatched, d_pc>>
           ELSE /\ dispatched' = Append(dispatched, [block |-> bk, rule |-> rule, at |-> Len(word_doc)])
                /\ IF rule \in { "heading1", "heading2", "heading3", "table", "figure" }
                   THEN /\ word_doc' = word_doc \o
                              ( CASE rule = "heading1" -> _add_heading(bk, 1)
                                  [] rule = "heading2" -> _add_heading(bk, 2)
                                  [] rule = "heading3" -> _add_heading(bk, 3)
                                  [] rule = "table"    -> _add_table(bk)
                                  [] OTHER             -> _add_image(bk) )
                        /\ bk_i' = bk_i + 1
                        /\ UNCHANGED <<todo, d_pc>>
                   ELSE /\ todo' = ( CASE rule = "list"   -> _add_list(bk)
                                       [] rule = "center" -> _add_centered(bk)
                                       [] OTHER           -> _add_paragraph(bk) )
                        /\ d_pc' = "para"
                        /\ UNCHANGED <<word_doc, bk_i>>
    /\ UNCHANGED <<src, content, blocks, text, idx>>
    /\ UNCHANGED orch_vars

\* _add_paragraph / _add_list / _add_centered: the next paragraph is added
\* and _apply_inline is entered on its text; with none left, the next block
DecPara ==
    /\ d_pc = "para"
    /\ IF todo = <<>>
       THEN /\ bk_i' = bk_i + 1
            /\ d_pc' = "blocks"
            /\ UNCHANGED <<word_doc, todo, text, idx>>
       ELSE /\ word_doc' = Append(word_doc, EmptyParagraph(Head(todo).style, Head(todo).align))
            /\ text' = Head(todo).text
            /\ idx' = 0
            /\ todo' = Tail(todo)
            /\ d_pc' = "inline"
            /\ UNCHANGED bk_i
    /\ UNCHANGED <<src, content, blocks, dispatched>>
    /\ UNCHANGED orch_vars

AddRuns(rs) == word_doc' = [word_doc EXCEPT ![Len(word_doc)].runs = @ \o rs]

PlainRun(t) == IF t = <<>> THEN <<>> ELSE <<Run(t, "none")>>

\* a cursor that is moved to the start of the match
AdvanceToStart(i, found_m) == i + found_m.start

\* _apply_inline, line 175: the cursor is moved past the full match
Advance(i, found_m) == i + found_m.end

\* _apply_inline, lines 136-175: one iteration of the while loop
InlineStep ==
    /\ d_pc = "inline"
    /\ IF idx < Len(text)
       THEN LET found == NextMatch(Drop(text, idx), 1, [m |-> NoMatch, type |-> "none"])
                found_m == found.m
            IN  IF found_m = NoMatch
                THEN /\ AddRuns(PlainRun(unescape_latex(Drop(text, idx))))
                     /\ d_pc' = "para"
                     /\ UNCHANGED idx
                ELSE /\ AddRuns(PlainRun(unescape_latex(Slice(text, idx, idx + found_m.start)))
                                \o <<Run(unescape_latex(found_m.group), found.type)>>)
                     /\ idx' = Advance(idx, found_m)
                     /\ UNCHANGED d_pc
       ELSE /\ d_pc' = "para"
            /\ UNCHANGED <<word_doc, idx>>
    /\ UNCHANGED <<src, content, blocks, bk_i, todo, text, dispatched>>
    /\ UNCHANGED orch_vars

\* DocxGenerator.convert, lines 47-51: all blocks are done, the document is saved
DecDone ==
    /\ d_pc = "blocks"
    /\ bk_i > Len(blocks)
    /\ d_pc' = "done"
    /\ UNCHANGED <<src, content, blocks, bk_i, word_doc, todo, text, idx, dispatched>>
    /\ UNCHANGED orch_vars

\* a DocxGenerator has been constructed and handed a markup text
DecInit ==
    /\ settings = [preserve_images |-> TRUE, clean_temp_files |-> TRUE]
    /\ OrchIdle
    /\ src \in DecInputs
    /\ content = MarkupOf(src)
    /\ blocks = <<>>
    /\ bk_i = 1
    /\ word_doc = <<>>
    /\ todo = <<>>
    /\ text = <<>>
    /\ idx = 0
    /\ dispatched = <<>>
    /\ d_pc = "start"

DecNext ==
    \/ DecStart
    \/ DecBlock
    \/ DecPara
    \/ InlineStep
    \/ DecDone

DecSpec == DecInit /\ [][DecNext]_vars

-----------------------------------------------------------------------------
(* Properties of the orchestrator                                          *)

Supported == { "docx", "tex", "latex" }

InLog(e) == \E k \in 1..Len(io_log) : io_log[k] = e

\* positions of convert at which the local `direction` has been assigned
AfterDirection ==
    { "c_outpath", "c_makedirs", "c_dispatch", "lg_load", "lg_temp", "lg_write",
      "c_cleanup", "dg_read", "dg_save", "c_returned" }

\* positions of convert at which output_file has been resolved
AfterOutPath == AfterDirection \ { "c_outpath" }

\* positions inside the markup-producing / document-producing transcoder
InLatexGen == { "lg_load", "lg_temp", "lg_write", "c_cleanup" }
InDocxGen == { "dg_read", "dg_save" }

\* the output path batch is expected to hand back for f
ExpectedBatchPath(f) ==
    LET e == IF Lower(f.ext) = "docx" THEN "tex" ELSE "docx"
    IN  IF out_dir # "" THEN P(out_dir, f.stem, e) ELSE P(f.dir, f.stem, e)

\* C1: batch returns a list as long as files and aligned with it: results[i]
\* is what the conversion of files[i] returned, None when it failed (missing
\* input, unsupported extension, failed conversion); batch does not raise,
\* takes the items in order and goes on after a failed item.
C1_BatchAligned ==
    /\ (call = "batch" /\ pc # "done") =>
          /\ bi \in 1..(Len(files) + 1)
          /\ Len(results) = bi - 1
    /\ (call = "batch" /\ pc = "done") =>
          /\ err = "none"
          /\ ret = results
          /\ Len(results) = Len(files)
          /\ Len(hist) = Len(files)
          /\ \A i \in 1..Len(files) :
                /\ hist[i].f = files[i]
                /\ results[i] = hist[i].out
                /\ files[i] \notin ExistingInputs => results[i] = None
                /\ Lower(files[i].ext) \notin Supported => results[i] = None
                /\ files[i] \in Corrupt => results[i] = None
                /\ results[i] # None =>
                      /\ results[i] = ExpectedBatchPath(files[i])
                      /\ results[i] \in fs_files

\* C1 witness: a batch of two whose first item failed and whose second succeeded
C1_Witness ==
    /\ call = "batch" /\ pc = "done"
    /\ Len(files) = 2
    /\ files[1] \notin ExistingInputs
    /\ results[1] = None
    /\ results[2] # None

\* C2: the direction convert runs is forced_direction when one is given, and
\* otherwise follows from the lower-cased extension alone (docx: to_latex;
\* tex, latex: to_docx; no supported extension is refused); a derived output
\* path is the input path with the extension of that direction.
C2_DirectionAndOutput ==
    /\ pc \in AfterDirection =>
          /\ forced_direction # "None" => direction = forced_direction
          /\ forced_direction = "None" =>
                /\ Lower(input_file.ext) = "docx" => direction = "to_latex"
                /\ Lower(input_file.ext) \in { "tex", "latex" } => direction = "to_docx"
                /\ Lower(input_file.ext) \in Supported
    /\ (pc = "c_raised" /\ direction = "None" /\ err = "InvalidFileFormatError")
          => Lower(input_file.ext) \notin Supported
    /\ pc \in InLatexGen => direction = "to_latex"
    /\ pc \in InDocxGen => direction = "to_docx"
    /\ (pc \in AfterOutPath /\ given_output = None) =>
          /\ direction = "to_latex" => output_file = P(input_file.dir, input_file.stem, "tex")
          /\ direction = "to_docx" => output_file = P(input_file.dir, input_file.stem, "docx")
    /\ (pc \in AfterOutPath /\ given_output # None) => output_file = given_output

\* C2 witness: in/B.DOCX, no direction forced, no output given, is being
\* converted to in/B.tex by the markup-producing transcoder
C2_Witness ==
    /\ pc = "lg_write"
    /\ forced_direction = "None"
    /\ input_file = P("in", "B", "DOCX")
    /\ given_output = None
    /\ output_file = P("in", "B", "tex")

\* C3: for an existing input whose extension is not supported (no direction
\* forced), the conversion fails with InvalidFileFormatError before any I/O
\* other than the existence check: no output directory has been created, no
\* file opened for writing and no transcoder constructed when the error is
\* raised, in convert and in batch with or without an output directory.
C3_FailsBeforeIO ==
    ( /\ pc \in { "c_raised", "b_except" }
      /\ err = "InvalidFileFormatError"
      /\ forced_direction = "None"
      /\ input_file \in ExistingInputs
      /\ Lower(input_file.ext) \notin Supported )
    => /\ fs_dirs = dirs0
       /\ ~ InLog("makedirs")
       /\ ~ InLog("open_write")
       /\ ~ InLog("LatexGenerator")
       /\ ~ InLog("DocxGenerator")

\* the forced direction contradicts the extension of the input
Mismatch ==
    \/ forced_direction = "to_latex" /\ Lower(input_file.ext) # "docx"
    \/ forced_direction = "to_docx" /\ Lower(input_file.ext) \notin { "tex", "latex" }

\* C4: when the forced direction contradicts the input's extension, the
\* dispatch fails with InvalidFileFormatError before a transcoder is
\* constructed: neither generator's convert is called and no output is written.
C4_MismatchFailsFast ==
    (call = "convert" /\ Mismatch) =>
       /\ pc \notin InLatexGen \cup InDocxGen \cup { "c_returned" }
       /\ ~ InLog("LatexGenerator") /\ ~ InLog("DocxGenerator")
       /\ ~ InLog("LatexGenerator.convert") /\ ~ InLog("DocxGenerator.convert")
       /\ ~ InLog("open_write")
       /\ fs_files = ExistingInputs
       /\ pc = "done" =>
             \/ err = "InvalidFileFormatError"
             \/ err = "ConversionError" /\ input_file \notin ExistingInputs
             \/ err = "OSError" /\ output_file.dir \in Uncreatable

\* C4 witness: an existing file was converted with a contradicting forced
\* direction and the call ended with InvalidFileFormatError
C4_Witness ==
    /\ call = "convert" /\ pc = "done"
    /\ Mismatch
    /\ input_file \in ExistingInputs
    /\ err = "InvalidFileFormatError"
    /\ InLog("makedirs")

-----------------------------------------------------------------------------
(* Properties of the decoder and of the encoder followed by the decoder    *)

FlagNames == { "bold", "italic", "underline" }

\* the flags a run carries
Flags(run) == { f \in FlagNames : run[f] }

\* the flag sets of the runs of a paragraph, in order
FlagSeq(runs) == [k \in 1..Len(runs) |-> Flags(runs[k])]

\* the input is an encoded document of non-empty, non-heading paragraphs
FlaggedParas ==
    /\ src.kind = "paras"
    /\ \A i \in 1..Len(src.body) :
          /\ src.body[i].style = "Normal"
          /\ src.body[i].align = "none"
          /\ strip(ParaText(src.body[i])) # <<>>

\* C5: a document of N non-empty, non-heading paragraphs whose runs carry
\* any combination of bold, italic and underline, encoded and then decoded,
\* gives N blocks classified as Paragraph, and the runs of each decoded
\* paragraph carry the flag sets of the runs they came from.
C5_RoundTrip ==
    (d_pc = "done" /\ FlaggedParas) =>
        /\ Len(dispatched) = Len(src.body)
        /\ \A k \in 1..Len(dispatched) : dispatched[k].rule = "paragraph"
        /\ Len(word_doc) = Len(src.body)
        /\ \A i \in 1..Len(src.body) :
              i <= Len(word_doc) =>
                  /\ word_doc[i].kind = "paragraph"
                  /\ FlagSeq(word_doc[i].runs) = FlagSeq(src.body[i].runs)

\* C6: one inner text enclosed by nested bold, italic and underline markers,
\* in any nesting order, is emitted as a single span with all three flags,
\* the text before and after it as unformatted spans, and no span text holds
\* a marker keyword or a brace.
C6_NestedFlagsCompose ==
    (d_pc = "done" /\ src.kind = "nested") =>
        /\ Len(word_doc) = 1
        /\ word_doc[1].runs =
              (IF src.pre = <<>> THEN <<>> ELSE <<SrcRun(src.pre, FALSE, FALSE, FALSE)>>)
              \o <<SrcRun(<<"x">>, TRUE, TRUE, TRUE)>>
              \o (IF src.post = <<>> THEN <<>> ELSE <<SrcRun(src.post, FALSE, FALSE, FALSE)>>)
        /\ \A k \in 1..Len(word_doc[1].runs) :
              \A j \in 1..Len(word_doc[1].runs[k].text) :
                  word_doc[1].runs[k].text[j] \notin (Markers \cup { "{", "}", "\\" })

\* the rows of a table input that no rule command precedes, by row number
Surviving(sr) ==
    CASE sr.style = "plain"   -> [r \in 1..Len(sr.widths) |-> r]
      [] sr.style = "toprule" -> [r \in 1..(Len(sr.widths) - 1) |-> r + 1]
      [] OTHER                -> <<>>

\* C7: the decoded table has as many columns as its first surviving row has
\* cells; the cells of a row beyond that count are dropped, the cells a row
\* lacks are blank, and a table without surviving rows adds no table.
C7_TableColumns ==
    (d_pc = "done" /\ src.kind = "table") =>
        LET kept == Surviving(src)
        IN  IF kept = <<>> THEN word_doc = <<>>
            ELSE /\ Len(word_doc) = 1
                 /\ word_doc[1].kind = "table"
                 /\ word_doc[1].ncols = src.widths[kept[1]]
                 /\ word_doc[1].nrows = Len(kept)
                 /\ Len(word_doc[1].cells) = Len(kept)
                 /\ \A r \in 1..Len(kept) :
                       /\ Len(word_doc[1].cells[r]) = word_doc[1].ncols
                       /\ \A c \in 1..word_doc[1].ncols :
                             word_doc[1].cells[r][c] =
                                 IF c <= src.widths[kept[r]] THEN CellText(kept[r], c) ELSE <<>>

\* three rows of two, one and three cells decode to a table of two columns
C7_Witness ==
    /\ d_pc = "done"
    /\ src.kind = "table"
    /\ src.style = "plain"
    /\ src.widths = <<2, 1, 3>>
    /\ Len(word_doc) = 1
    /\ word_doc[1].ncols = 2
    /\ word_doc[1].cells[2] = <<CellText(2, 1), <<>> >>
    /\ word_doc[1].cells[3] = <<CellText(3, 1), CellText(3, 2)>>

\* the blocks of the body that are not empty after trimming
NonEmptyBlocks == SelectSeq([i \in 1..Len(blocks) |-> strip(blocks[i])], IsNonEmpty)

\* the elements the k-th dispatched block has added to the document, once
\* the decoder is past that block
Elements(k) ==
    SubSeq(word_doc, dispatched[k].at + 1,
           IF k < Len(dispatched) THEN dispatched[k + 1].at ELSE Len(word_doc))

\* an element is of the kind the reconstructor of a rule produces
MadeBy(rule, e) ==
    CASE rule = "heading1" -> e.kind = "heading" /\ e.level = 1
      [] rule = "heading2" -> e.kind = "heading" /\ e.level = 2
      [] rule = "heading3" -> e.kind = "heading" /\ e.level = 3
      [] rule = "table"    -> e.kind = "table"
      [] rule = "figure"   -> e.kind = "picture" \/ (e.kind = "paragraph" /\ e.style = "Normal")
      [] rule = "list"     -> e.kind = "paragraph" /\ e.style \in { "List Bullet", "List Number" }
      [] rule = "center"   -> e.kind = "paragraph" /\ e.align = "center"
      [] OTHER             -> e.kind = "paragraph" /\ e.style = "Normal" /\ e.align = "none"

\* C8: every non-empty block is dispatched to exactly one reconstructor:
\* a block beginning with the section keyword to level 1, with the
\* subsection keyword to level 2, with the subsubsection keyword to level 3;
\* otherwise by containment of the table, figure, list and center openers in
\* that order; otherwise Paragraph.  Only that reconstructor adds elements
\* for the block, and blocks empty after trimming are dispatched to none.
C8_OneRulePerBlock ==
    /\ \A k \in 1..Len(dispatched) :
          LET b == dispatched[k].block
              rule == dispatched[k].rule
              heading == \/ StartsWith(b, <<"\\", "section">>)
                         \/ StartsWith(b, <<"\\", "sub", "section">>)
                         \/ StartsWith(b, <<"\\", "sub", "sub", "section">>)
              has(env) == Contains(b, BEGIN(env))
          IN  /\ b # <<>>
              /\ (rule = "heading1") <=> StartsWith(b, <<"\\", "section">>)
              /\ (rule = "heading2") <=> StartsWith(b, <<"\\", "sub", "section">>)
              /\ (rule = "heading3") <=> StartsWith(b, <<"\\", "sub", "sub", "section">>)
              /\ (rule = "table") <=> (~ heading /\ has("table"))
              /\ (rule = "figure") <=> (~ heading /\ ~ has("table") /\ has("figure"))
              /\ (rule = "list") <=>
                    (~ heading /\ ~ has("table") /\ ~ has("figure")
                     /\ (has("itemize") \/ has("enumerate")))
              /\ (rule = "center") <=>
                    (~ heading /\ ~ has("table") /\ ~ has("figure")
                     /\ ~ has("itemize") /\ ~ has("enumerate") /\ has("center"))
              /\ (rule = "paragraph") <=>
                    (~ heading /\ ~ has("table") /\ ~ has("figure")
                     /\ ~ has("itemize") /\ ~ has("enumerate") /\ ~ has("center"))
    /\ d_pc = "done" =>
          /\ [k \in 1..Len(dispatched) |-> dispatched[k].block] = NonEmptyBlocks
          /\ \A k \in 1..Len(dispatched) :
                \A j \in 1..Len(Elements(k)) : MadeBy(dispatched[k].rule, Elements(k)[j])

\* a block with a table opener and a list opener, between two other blocks,
\* has been handled as a table only
C8_Witness ==
    /\ d_pc = "done"
    /\ Len(dispatched) = 3
    /\ dispatched[2].block = B_table_list
    /\ dispatched[2].rule = "table"
    /\ Elements(2) = <<>>
    /\ dispatched[3].rule = "list"

\* the blocks whose reconstruction cannot succeed
Malformed == { B_section_untitled, B_table_no_tabular, B_table_no_rows,
               B_figure_empty, B_center_open }

\* what the blocks put before and after the block under test are decoded to
Decoded(b) ==
    CASE b = B_plain   -> <<TextParagraph(<<"a", " ", "b">>)>>
      [] b = B_section -> <<[kind |-> "heading", level |-> 1, text |-> <<"a">>]>>
      [] b = B_itemize ->
            <<[kind |-> "paragraph", style |-> "List Bullet", align |-> "none",
               runs |-> <<SrcRun(<<"a">>, FALSE, FALSE, FALSE)>>],
              [kind |-> "paragraph", style |-> "List Bullet", align |-> "none",
               runs |-> <<SrcRun(<<"b">>, TRUE, FALSE, FALSE)>>]>>

\* C9: the decoder processes every block of a sequence; a table block without
\* a tabular environment or without rows, a heading block without a braced
\* title, a figure block without an image command and a center block without
\* a closing tag add nothing; a figure block naming a file that does not
\* exist adds exactly one placeholder paragraph whose text holds the path;
\* the blocks that follow are still reconstructed, in order.
C9_BlocksDegrade ==
    (d_pc = "done" /\ src.kind = "raw") =>
        /\ [k \in 1..Len(dispatched) |-> dispatched[k].block]
              = SelectSeq([i \in 1..Len(src.blks) |-> strip(src.blks[i])], IsNonEmpty)
        /\ \A k \in 1..Len(dispatched) :
              LET b == dispatched[k].block
                  out == Elements(k)
              IN  /\ b \in Malformed => out = <<>>
                  /\ b = B_figure_missing =>
                        /\ Len(out) = 1
                        /\ out[1].kind = "paragraph"
                        /\ Len(out[1].runs) = 1
                        /\ Contains(out[1].runs[1].text, <<"n">>)
                  /\ b \in AroundPool => out = Decoded(b)

\* a figure block naming a missing file, between a paragraph and a list
C9_Witness ==
    /\ d_pc = "done"
    /\ src.kind = "raw"
    /\ src.blks = <<B_plain, B_figure_missing, B_itemize>>
    /\ Len(word_doc) = 4
    /\ word_doc[2].kind = "paragraph"
    /\ word_doc[4] = Decoded(B_itemize)[2]

\* C10: every row that holds cell data yields a row of the decoded table,
\* also when a rule command stands before its first cell: a table of R rows,
\* as the encoder emits it or written by hand, decodes to a table of R rows.
C10_DataRowsKept ==
    (d_pc = "done" /\ src.kind = "table" /\ src.widths # <<>>) =>
        /\ Len(word_doc) = 1
        /\ word_doc[1].kind = "table"
        /\ word_doc[1].nrows = Len(src.widths)

\* a list-style paragraph of one unformatted span
ListParagraph(style, t) ==
    [kind |-> "paragraph", style |-> style, align |-> "none",
     runs |-> <<SrcRun(t, FALSE, FALSE, FALSE)>>]

\* the list blocks of the inputs and the paragraphs of their items, each
\* item with its text up to the next item keyword or the environment close
ListBlocks == { B_itemize, B_enumerate, B_itemize_wrapped }

ItemParagraphs(b) ==
    CASE b = B_itemize   -> Decoded(B_itemize)
      [] b = B_enumerate -> <<ListParagraph("List Number", <<"a">>)>>
      [] b = B_itemize_wrapped ->
            <<ListParagraph("List Bullet", <<"a", "\n", "b">>),
              ListParagraph("List Bullet", <<"c">>)>>

\* C11: the list reconstructor appends one list-style paragraph per item, in
\* item order, numbered for an enumerate block and bulleted otherwise, and
\* each item is tokenized with its whole text up to the next item keyword,
\* a blank line or the environment close, also over a single line break.
C11_ListItems ==
    d_pc = "done" =>
        \A k \in 1..Len(dispatched) :
            dispatched[k].block \in ListBlocks =>
                /\ dispatched[k].rule = "list"
                /\ Elements(k) = ItemParagraphs(dispatched[k].block)

\* the runs of the paragraph the tokenizer is working on
CurrentRuns == word_doc[Len(word_doc)].runs

\* the span emitted for captured text t of a marker that opens with tokens o
SpanOf(t, o) ==
    SrcRun(t, o = <<"\\", "textbf", "{">>,
              o \in { <<"\\", "textit", "{">>, <<"$">> },
              o = <<"\\", "underline", "{">>)

\* the delimiters that open a marker, and the one that closes each
Openers == { <<"\\", kw, "{">> : kw \in Markers } \cup { <<"$">> }
CloserOf(o) == IF o = <<"$">> THEN <<"$">> ELSE <<"}">>

\* an unformatted span of text t, none when t is empty
Unformatted(t) == IF t = <<>> THEN <<>> ELSE <<SrcRun(unescape_latex(t), FALSE, FALSE, FALSE)>>

\* no pattern has a match in the text after the cursor that starts before s
NoneBefore(s) ==
    \A k \in 1..Len(patterns) :
        LET m == SearchPattern(k, Drop(text, idx))
        IN  m = NoMatch \/ idx + m.start >= s

\* one iteration of the tokenizer: it stops with the remainder as one span,
\* or it takes the earliest match [s, idx') with captured text [g1, g2)
TokenizerStep ==
    LET added == SubSeq(CurrentRuns', Len(CurrentRuns) + 1, Len(CurrentRuns'))
    IN  /\ idx \in 0..Len(text)
        /\ text' = text
        /\ Len(word_doc') = Len(word_doc)
        /\ SubSeq(CurrentRuns', 1, Len(CurrentRuns)) = CurrentRuns
        /\ \/ /\ d_pc' = "para"
              /\ idx' = idx
              /\ NoneBefore(Len(text) + 1)
              /\ added = Unformatted(Drop(text, idx))
           \/ /\ d_pc' = "inline"
              /\ \E s \in idx..Len(text) : \E g1 \in s..Len(text) : \E g2 \in g1..Len(text) :
                    /\ s < g1 /\ g2 < idx' /\ idx' <= Len(text)
                    /\ Slice(text, s, g1) \in Openers
                    /\ Slice(text, g2, idx') = CloserOf(Slice(text, s, g1))
                    /\ NoneBefore(s)
                    /\ added = Unformatted(Slice(text, idx, s))
                               \o <<SpanOf(unescape_latex(Slice(text, g1, g2)), Slice(text, s, g1))>>

\* C12: the spans of the tokenizer cover the input without gaps or overlaps:
\* the cursor is a position of the input; each iteration takes the earliest
\* match in the remaining text, emits the text between the cursor and the
\* match as one unformatted span and the captured text as one formatted
\* span, and moves the cursor just past the match; with no match left the
\* remainder is emitted as one unformatted span.
C12_SpansCover == [][d_pc = "inline" => TokenizerStep]_vars

\* the tokenizer has emitted an unformatted and a formatted span and is
\* inside the text, before a second marker
C12_Witness ==
    /\ d_pc = "inline"
    /\ text = B_inline
    /\ idx > 0
    /\ idx < Len(text)
    /\ CurrentRuns = <<SrcRun(<<"a", " ">>, FALSE, FALSE, FALSE), SrcRun(<<"b">>, FALSE, TRUE, FALSE)>>

\* C13: the tokenizer terminates on every input: every iteration either
\* leaves the loop or moves the cursor forward by at least one character and
\* not past the end of the text, also when a marker's braces enclose no
\* text, so the loop is left after at most len(text) iterations.
C13_Terminates ==
    [][d_pc = "inline" =>
          \/ (d_pc' = "para" /\ idx' = idx)
          \/ (d_pc' = "inline" /\ idx < Len(text) /\ idx' > idx /\ idx' <= Len(text))]_vars

\* the tokenizer has been run on a text with a marker whose braces enclose
\* no text and has left its loop, the text emitted as one unformatted span
C13_Witness ==
    /\ d_pc = "para"
    /\ text = B_empty_marker
    /\ idx = 0
    /\ CurrentRuns = <<SrcRun(B_empty_marker, FALSE, FALSE, FALSE)>>

\* the positions of convert between the creation of the workspace and the
\* cleanup that follows a successful LatexGenerator.convert
WorkspaceInUse == { "lg_write", "c_cleanup" }

\* C14: with image preservation and temp-file cleanup both enabled, every
\* workspace that a conversion creates is cleaned up before convert returns
\* or raises, also when the conversion fails after the workspace was
\* created: outside a running markup-producing conversion no workspace is
\* left on disk.
C14_WorkspaceReleased ==
    ( /\ settings.preserve_images
      /\ settings.clean_temp_files
      /\ pc \notin WorkspaceInUse )
    => temp_dirs = {}

\* the input paths of the batch are pairwise distinct
DistinctFiles == \A i, j \in 1..Len(files) : i # j => files[i] # files[j]

\* C15: in one batch over pairwise distinct input paths, two items that both
\* succeed have different output paths, with and without an output
\* directory, so no item's output is overwritten by a later item.
C15_NoOutputCollision ==
    (call = "batch" /\ pc = "done" /\ DistinctFiles) =>
        \A i, j \in 1..Len(results) :
            (i < j /\ results[i] # None /\ results[j] # None) => results[i] # results[j]

\* the number of tokens tok in s
CountTok(s, tok) == Cardinality({ i \in 1..Len(s) : s[i] = tok })

\* the column specification of the tabular environment of a markup text
ColumnSpec(tex) ==
    LET p == Find(tex, BEGIN("tabular"), 0)
    IN  Slice(tex, p + 6, ArgEnd(tex, p + 5, "{", "}") - 1)

\* the rows of the tabular environment of a markup text: the pieces that
\* end with a row separator
EmittedRows(tex) ==
    LET pieces == split(SearchTabular(tex).group, <<"\\", "\\">>)
    IN  SubSeq(pieces, 1, Len(pieces) - 1)

\* C16: the tabular environment the encoder emits declares as many columns
\* as the first row of the table has cells, and every emitted row, for every
\* row of the table, has exactly that many cells: one cell separator fewer
\* than declared columns.
C16_TabularConsistent ==
    (src.kind = "table" /\ src.style = "encoder" /\ src.widths # <<>>) =>
        LET declared == CountTok(ColumnSpec(content), "c")
            emitted == EmittedRows(content)
        IN  /\ declared = src.widths[1]
            /\ Len(emitted) = Len(src.widths)
            /\ \A r \in 1..Len(emitted) : CountTok(emitted[r], "&") + 1 = declared

=============================================================================
